---------------------------- MODULE Spec2Model ----------------------------
(***************************************************************************)
(* A model of the Madad MVP API (src/main.py, src/schemas.py): the route   *)
(* table of the FastAPI application, its handlers, the token service and   *)
(* the three collections of the document store the handlers read and       *)
(* write.                                                                  *)
(*                                                                         *)
(* Conventions                                                             *)
(*  - Optional[T] is a sequence of length at most one: <<>> is None and    *)
(*    <<v>> is the value v.                                                *)
(*  - A collection is the sequence of its documents in insertion order;    *)
(*    nothing in the program deletes a document.                           *)
(*  - An ObjectId is written as its string; the store hands out fresh      *)
(*    ones, and strings such as "nearby" are not ObjectIds.                *)
(*  - Time is counted in whole seconds, the resolution of a token's exp.   *)
(*  - The process is one whose store connection exists (db is not None):   *)
(*    index creation at import may still fail part of the way.             *)
(*  - Fields no claim or handler decision reads (name of a user, the       *)
(*    created_at / updated_at stamps) are left out of the documents.       *)
(***************************************************************************)
EXTENDS Integers, Sequences, FiniteSets, TLC

VARIABLES
    users,      \* db["user"]: sequence of user documents
    vendors,    \* db["vendor"]: sequence of vendor documents
    payments,   \* db["payment"]: sequence of payment documents
    indexes,    \* how many of the three create_index calls succeeded (0..3)
    now,        \* the clock, in seconds
    last,       \* the last request served and the response it got
    inflight    \* register requests being handled step by step

vars == <<users, vendors, payments, indexes, now, last, inflight>>

---------------------------------------------------------------------------
(* Bounds of the model *)

MaxUsers == 2
MaxVendors == 2
MaxPayments == 1
MaxTick == 1
MaxInflight == 2

---------------------------------------------------------------------------
(* Values *)

None == <<>>
Some(v) == <<v>>

\* Python truthiness of an Optional[str]: None and "" are falsy.
Truthy(o) == o # None /\ o[1] # ""

Last(s) == s[Len(s)]

RECURSIVE SeqFilter(_, _)
SeqFilter(s, S) ==
    IF s = <<>> THEN <<>>
    ELSE IF s[1] \in S THEN <<s[1]>> \o SeqFilter(Tail(s), S)
    ELSE SeqFilter(Tail(s), S)

Range(s) == {s[i] : i \in DOMAIN s}

---------------------------------------------------------------------------
(* Configuration (src/main.py 26-28) *)

JWT_SECRET == "dev_secret_change_me"
ACCESS_TOKEN_EXPIRE_MINUTES == 43200
NearbyLimit == 200

TokenLifetime == ACCESS_TOKEN_EXPIRE_MINUTES * 60

\* The instants the clock visits: around issue time and around expiry.
Instants == (0 .. MaxTick) \cup {TokenLifetime + d : d \in 0 .. MaxTick}

---------------------------------------------------------------------------
(* ObjectIds.  Each collection numbers its documents from its own base so  *)
(* that no two documents of the store share an id.                         *)

UserIdBase == 0
VendorIdBase == 100
PaymentIdBase == 200

Oid(n) == ToString(n)

ObjectIds == {Oid(n) : n \in 1 .. 299}

\* bson.ObjectId(s): raises InvalidId unless s is an ObjectId string.
IsObjectId(s) == s \in ObjectIds

---------------------------------------------------------------------------
(* The store *)

\* find_one({field: value}): the first document of the collection whose
\* field has the value.
find_one(coll, field, value) ==
    LET hits == {i \in DOMAIN coll : coll[i][field] = value}
    IN  IF hits = {} THEN None
        ELSE Some(coll[CHOOSE i \in hits : \A j \in hits : i <= j])

\* The unique indexes of db["user"] (src/main.py 34-36): the calls run in
\* order inside one try, so the email index exists when at least two calls
\* succeeded and the phone index when all three did.
GeoIndex == indexes >= 1
EmailIndex == indexes >= 2
PhoneIndex == indexes >= 3

\* A unique sparse index leaves out only the documents that lack the field;
\* register stores email and phone always (model_dump keeps None), so a
\* null is an indexed value like any other.
DuplicateKey(coll, doc) ==
    \/ EmailIndex /\ \E i \in DOMAIN coll : coll[i].email = doc.email
    \/ PhoneIndex /\ \E i \in DOMAIN coll : coll[i].phone = doc.phone

WithId(doc, id) ==
    [f \in DOMAIN doc \cup {"_id"} |-> IF f = "_id" THEN id ELSE doc[f]]

\* db["user"].insert_one(data): the collection after the insert and the
\* inserted id, or a DuplicateKeyError.
user_insert_one(coll, data) ==
    IF DuplicateKey(coll, data)
    THEN [error |-> TRUE, coll |-> coll, inserted_id |-> ""]
    ELSE LET id == Oid(UserIdBase + Len(coll) + 1)
         IN  [error |-> FALSE, coll |-> Append(coll, WithId(data, id)),
              inserted_id |-> id]

\* database.create_document(collection_name, model): insert the model's
\* fields and return the assigned id as a string.
create_document(coll, base, model) ==
    LET id == Oid(base + Len(coll) + 1)
    IN  [coll |-> Append(coll, WithId(model, id)), inserted_id |-> id]

\* update_one without "$set": the matched document is replaced by update.
update_one_replace(coll, id, update) ==
    LET hits == {i \in DOMAIN coll : coll[i]._id = id}
    IN  [matched_count |-> Cardinality(hits),
         coll |-> [i \in DOMAIN coll |->
                     IF i \in hits
                     THEN [f \in {"_id"} \cup DOMAIN update |->
                             IF f \in DOMAIN update THEN update[f]
                             ELSE coll[i][f]]
                     ELSE coll[i]]]

\* update_one({"_id": id}, {"$set": update}): the matched document gets the
\* fields of update, every other field and document is kept.
update_one(coll, id, update) ==
    LET hits == {i \in DOMAIN coll : coll[i]._id = id}
    IN  [matched_count |-> Cardinality(hits),
         coll |-> [i \in DOMAIN coll |->
                     IF i \in hits
                     THEN [f \in DOMAIN coll[i] \cup DOMAIN update |->
                             IF f \in DOMAIN update THEN update[f]
                             ELSE coll[i][f]]
                     ELSE coll[i]]]

---------------------------------------------------------------------------
(* Password / token service (src/main.py 52-65, 119-131) *)

\* pwd_context.hash: a bcrypt hash, which is not the password.
hash_password(password) == [scheme |-> "bcrypt", of |-> password]

\* pwd_context.verify
verify_password(password, hashed) ==
    hashed.scheme = "bcrypt" /\ hashed.of = password

\* jwt.encode(payload, key): the payload signed with the key.
jwt_encode(payload, key) ==
    [sub |-> payload.sub, exp |-> payload.exp, sig |-> key]

\* jwt.decode without the check of exp.
jwt_decode_no_expiry(token, key) ==
    IF token.sig # key THEN [error |-> TRUE, sub |-> ""]
    ELSE [error |-> FALSE, sub |-> token.sub]

\* jwt.decode(token, key): the payload, or an exception when the token is
\* not a token, is not signed with the key, or has reached its exp.
jwt_decode(token, key) ==
    IF token.sig # key THEN [error |-> TRUE, sub |-> ""]
    ELSE IF token.exp <= now THEN [error |-> TRUE, sub |-> ""]
    ELSE [error |-> FALSE, sub |-> token.sub]

\* create_access_token(sub) at the instant t.
create_access_token_at(sub, t) ==
    jwt_encode([sub |-> sub, exp |-> t + TokenLifetime], JWT_SECRET)

create_access_token(sub) == create_access_token_at(sub, now)

\* str.lower() on the scheme of an Authorization header.
Lower(s) ==
    CASE s = "Bearer" -> "bearer"
      [] s = "BEARER" -> "bearer"
      [] s = "Basic" -> "basic"
      [] OTHER -> s

\* get_current_user(authorization): the user document the bearer token
\* stands for, or None.  authorization is Optional[[scheme, token]].
get_current_user(authorization) ==
    IF authorization = None \/ Lower(authorization[1].scheme) # "bearer"
    THEN None
    ELSE LET payload == jwt_decode(authorization[1].token, JWT_SECRET)
         IN  IF payload.error THEN None
             ELSE IF payload.sub = "" THEN None
             ELSE IF ~IsObjectId(payload.sub) THEN None
             ELSE LET sub == payload.sub
                  IN  find_one(users, "_id", sub)

---------------------------------------------------------------------------
(* Documents as the handlers return them *)

\* serialize_doc: "_id" becomes "id", the ObjectId as a string.
serialize_doc(doc) ==
    [f \in (DOMAIN doc \ {"_id"}) \cup {"id"} |->
        IF f = "id" THEN doc._id ELSE doc[f]]

UserOut(id, email, phone) == [id |-> id, email |-> email, phone |-> phone]

TokenResponse(token, user_out) ==
    [access_token |-> token, token_type |-> "bearer", user |-> user_out]

\* raise HTTPException(status_code, detail), and an uncaught exception.
HTTPError(code, detail) == [status |-> code, body |-> [detail |-> detail]]
Ok(body) == [status |-> 200, body |-> body]
ServerError == HTTPError(500, "Internal Server Error")

\* What a handler did: its response and the collections it leaves.
Out(resp, u, v, p) ==
    [status |-> resp.status, body |-> resp.body,
     users |-> u, vendors |-> v, payments |-> p]

Unchanged(resp) == Out(resp, users, vendors, payments)

---------------------------------------------------------------------------
(* AUTH handlers (src/main.py 134-187) *)

\* register(user), from the uniqueness checks on: user is the validated
\* body [email, phone, password].
register_lookups(user) ==
    IF ~Truthy(user.email) /\ ~Truthy(user.phone)
    THEN Some(HTTPError(400, "Email or phone is required"))
    ELSE IF Truthy(user.email)
            /\ find_one(users, "email", user.email) # None
    THEN Some(HTTPError(409, "Email already registered"))
    ELSE IF Truthy(user.phone)
            /\ find_one(users, "phone", user.phone) # None
    THEN Some(HTTPError(409, "Phone already registered"))
    ELSE None

\* register(user), from model_dump to the response: the insert and the
\* token.  A DuplicateKeyError of the insert is caught nowhere.
register_insert(user) ==
    LET data == [email |-> user.email, phone |-> user.phone,
                 hashed_password |-> hash_password(user.password)]
        res == user_insert_one(users, data)
        uid == res.inserted_id
    IN  IF res.error THEN Unchanged(ServerError)
        ELSE Out(Ok(TokenResponse(create_access_token(uid),
                                  UserOut(uid, data.email, data.phone))),
                 res.coll, vendors, payments)

register(user) ==
    LET refused == register_lookups(user)
    IN  IF refused # None THEN Unchanged(refused[1])
        ELSE register_insert(user)

\* login answering an unknown email or phone with 404.
login_not_found(req) ==
    IF ~Truthy(req.email) /\ ~Truthy(req.phone)
    THEN Unchanged(HTTPError(400, "Email or phone is required"))
    ELSE LET doc == IF Truthy(req.email)
                    THEN find_one(users, "email", req.email)
                    ELSE find_one(users, "phone", req.phone)
         IN  IF doc = None
             THEN Unchanged(HTTPError(404, "User not found"))
             ELSE IF ~verify_password(req.password, doc[1].hashed_password)
             THEN Unchanged(HTTPError(401, "Invalid credentials"))
             ELSE LET uid == doc[1]._id
                  IN  Unchanged(Ok(TokenResponse(
                          create_access_token(uid),
                          UserOut(uid, doc[1].email, doc[1].phone))))

\* login(req): req is [email, phone, password].
login(req) ==
    IF ~Truthy(req.email) /\ ~Truthy(req.phone)
    THEN Unchanged(HTTPError(400, "Email or phone is required"))
    ELSE LET doc == IF Truthy(req.email)
                    THEN find_one(users, "email", req.email)
                    ELSE find_one(users, "phone", req.phone)
         IN  IF doc = None
             THEN Unchanged(HTTPError(401, "Invalid credentials"))
             ELSE IF ~verify_password(req.password, doc[1].hashed_password)
             THEN Unchanged(HTTPError(401, "Invalid credentials"))
             ELSE LET uid == doc[1]._id
                  IN  Unchanged(Ok(TokenResponse(
                          create_access_token(uid),
                          UserOut(uid, doc[1].email, doc[1].phone))))

\* me(current)
me(authorization) ==
    LET current == get_current_user(authorization)
    IN  IF current = None THEN Unchanged(HTTPError(401, "Unauthorized"))
        ELSE LET doc == serialize_doc(current[1])
             IN  Unchanged(Ok(UserOut(doc.id, doc.email, doc.phone)))

---------------------------------------------------------------------------
(* Schemas (src/schemas.py 48-65, src/main.py 68-75) *)

VendorFields ==
    {"name", "phone", "service_type", "location", "address", "description",
     "approved", "verified", "payment_status"}

VendorDefaults ==
    [address |-> None, description |-> None, approved |-> FALSE,
     verified |-> FALSE, payment_status |-> "unpaid"]

\* Vendor with payment_status defaulting to "active".
Vendor_default_active(body) ==
    [f \in VendorFields |->
        IF f \in DOMAIN body THEN body[f]
        ELSE IF f = "payment_status" THEN "active" ELSE VendorDefaults[f]]

\* Vendor(**body): the fields of the body, and the default of every field
\* the body leaves out.
Vendor(body) ==
    [f \in VendorFields |->
        IF f \in DOMAIN body THEN body[f] ELSE VendorDefaults[f]]

PaymentFields ==
    {"vendor_id", "amount_pkr", "method", "status", "reference", "notes"}

PaymentDefaults ==
    [method |-> "manual", status |-> "pending", reference |-> None,
     notes |-> None]

Payment(body) ==
    [f \in PaymentFields |->
        IF f \in DOMAIN body THEN body[f] ELSE PaymentDefaults[f]]

UpdateVendorFields ==
    {"approved", "verified", "payment_status", "name", "phone", "address",
     "description"}

\* UpdateVendor(**body): every field Optional, None when left out.  A body
\* gives a field as <<v>>, or as <<>> for an explicit null.
UpdateVendor(body) ==
    [f \in UpdateVendorFields |->
        IF f \in DOMAIN body THEN body[f] ELSE None]

\* The value a vendor document holds for a field set to v: the Optional
\* fields of a vendor keep their Optional form.
StoredValue(f, v) == IF f \in {"address", "description"} THEN Some(v) ELSE v

\* payload.model_dump(exclude_none=True)
model_dump_exclude_none(payload) ==
    [f \in {g \in DOMAIN payload : payload[g] # None} |->
        StoredValue(f, payload[f][1])]

---------------------------------------------------------------------------
(* VENDORS and payments (src/main.py 191-288) *)

\* create_vendor(vendor, current)
create_vendor(body, authorization) ==
    IF get_current_user(authorization) = None
    THEN Unchanged(HTTPError(401, "Unauthorized"))
    ELSE LET res == create_document(vendors, VendorIdBase, Vendor(body))
             vid == res.inserted_id
             doc == find_one(res.coll, "_id", vid)
         IN  Out(Ok(serialize_doc(doc[1])), users, res.coll, payments)

\* The try block of get_vendor: what it returns or raises.
get_vendor_try(vendor_id) ==
    IF ~IsObjectId(vendor_id)
    THEN [raised |-> "InvalidId", resp |-> ServerError]
    ELSE LET doc == find_one(vendors, "_id", vendor_id)
         IN  IF doc = None
             THEN [raised |-> "HTTPException",
                   resp |-> HTTPError(404, "Vendor not found")]
             ELSE [raised |-> "", resp |-> Ok(serialize_doc(doc[1]))]

\* get_vendor(vendor_id): "except Exception" catches whatever the try
\* block raised, the HTTPException of the 404 included.
get_vendor(vendor_id) ==
    LET t == get_vendor_try(vendor_id)
    IN  IF t.raised # ""
        THEN Unchanged(HTTPError(400, "Invalid vendor id"))
        ELSE Unchanged(t.resp)

\* The try block of update_vendor with ObjectId(vendor_id) taken first.
update_vendor_try_id_first(vendor_id, payload) ==
    LET update == model_dump_exclude_none(payload)
    IN  IF ~IsObjectId(vendor_id)
        THEN [raised |-> "InvalidId", resp |-> ServerError,
              vendors |-> vendors]
        ELSE IF DOMAIN update = {}
        THEN [raised |-> "", resp |-> Ok([updated |-> FALSE]),
              vendors |-> vendors]
        ELSE LET res == update_one(vendors, vendor_id, update)
             IN  IF res.matched_count = 0
                 THEN [raised |-> "HTTPException",
                       resp |-> HTTPError(404, "Vendor not found"),
                       vendors |-> vendors]
                 ELSE LET doc == find_one(res.coll, "_id", vendor_id)
                      IN  [raised |-> "",
                           resp |-> Ok(serialize_doc(doc[1])),
                           vendors |-> res.coll]

\* The try block of update_vendor.
update_vendor_try(vendor_id, payload) ==
    LET update == model_dump_exclude_none(payload)
    IN  IF DOMAIN update = {}
        THEN [raised |-> "", resp |-> Ok([updated |-> FALSE]),
              vendors |-> vendors]
        ELSE IF ~IsObjectId(vendor_id)
        THEN [raised |-> "InvalidId", resp |-> ServerError,
              vendors |-> vendors]
        ELSE LET res == update_one(vendors, vendor_id, update)
             IN  IF res.matched_count = 0
                 THEN [raised |-> "HTTPException",
                       resp |-> HTTPError(404, "Vendor not found"),
                       vendors |-> vendors]
                 ELSE LET doc == find_one(res.coll, "_id", vendor_id)
                      IN  [raised |-> "",
                           resp |-> Ok(serialize_doc(doc[1])),
                           vendors |-> res.coll]

\* update_vendor(vendor_id, payload, current): an HTTPException is raised
\* again, any other exception becomes the 400.
update_vendor(vendor_id, body, authorization) ==
    IF get_current_user(authorization) = None
    THEN Unchanged(HTTPError(401, "Unauthorized"))
    ELSE LET t == update_vendor_try(vendor_id, UpdateVendor(body))
         IN  IF t.raised = "HTTPException" THEN Unchanged(t.resp)
             ELSE IF t.raised # ""
             THEN Unchanged(HTTPError(400, "Invalid vendor id"))
             ELSE Out(t.resp, users, t.vendors, payments)

\* create_payment open to any caller.
create_payment_open(body, authorization) ==
    LET res == create_document(payments, PaymentIdBase, Payment(body))
        pid == res.inserted_id
        doc == find_one(res.coll, "_id", pid)
    IN  Out(Ok(serialize_doc(doc[1])), users, vendors, res.coll)

\* create_payment(payment, current)
create_payment(body, authorization) ==
    IF get_current_user(authorization) = None
    THEN Unchanged(HTTPError(401, "Unauthorized"))
    ELSE LET res == create_document(payments, PaymentIdBase, Payment(body))
             pid == res.inserted_id
             doc == find_one(res.coll, "_id", pid)
         IN  Out(Ok(serialize_doc(doc[1])), users, vendors, res.coll)

---------------------------------------------------------------------------
(* Nearby search (src/main.py 236-262).  Coordinates are in thousandths of *)
(* a degree; the store measures the distance on the sphere.                *)

Abs(x) == IF x < 0 THEN -x ELSE x

\* The square of the distance in metres between two [lng, lat] points near
\* 24.8 N: a thousandth of a degree is 111 m of latitude, 101 m of longitude.
DistanceSq(p, q) ==
    (101 * Abs(p[1] - q[1])) * (101 * Abs(p[1] - q[1]))
    + (111 * Abs(p[2] - q[2])) * (111 * Abs(p[2] - q[2]))

\* int(radius_km * 1000), radius_km given as the fraction num / den.
MaxDistance(radius_km) == (radius_km.num * 1000) \div radius_km.den

\* The filter of the query: approved, active, inside the radius and of the
\* service type when one is given.
NearbyMatch(doc, query) ==
    /\ doc.approved = TRUE
    /\ doc.payment_status = "active"
    /\ DistanceSq(doc.location.coordinates, <<query.lng, query.lat>>)
         <= MaxDistance(query.radius_km) * MaxDistance(query.radius_km)
    /\ Truthy(query.service_type) => doc.service_type = query.service_type[1]

\* $near returns the nearest first: insert d into a sequence kept sorted
\* by distance from the point pt.
RECURSIVE InsertByDistance(_, _, _)
InsertByDistance(sorted, d, pt) ==
    IF sorted = <<>> THEN <<d>>
    ELSE IF DistanceSq(d.location.coordinates, pt)
              < DistanceSq(sorted[1].location.coordinates, pt)
    THEN <<d>> \o sorted
    ELSE <<sorted[1]>> \o InsertByDistance(Tail(sorted), d, pt)

RECURSIVE SortByDistance(_, _)
SortByDistance(docs, pt) ==
    IF docs = <<>> THEN <<>>
    ELSE InsertByDistance(SortByDistance(SubSeq(docs, 1, Len(docs) - 1), pt),
                          Last(docs), pt)

Limit(s, n) == SubSeq(s, 1, IF Len(s) < n THEN Len(s) ELSE n)

\* nearby_vendors(lng, lat, radius_km, service_type): $near needs the
\* 2dsphere index, and fails without it.
nearby_vendors(query) ==
    IF ~GeoIndex THEN Unchanged(ServerError)
    ELSE LET hits == SeqFilter(vendors,
                        {d \in Range(vendors) : NearbyMatch(d, query)})
             cursor == Limit(SortByDistance(hits, <<query.lng, query.lat>>),
                             NearbyLimit)
             results == [i \in DOMAIN cursor |-> serialize_doc(cursor[i])]
         IN  Unchanged(Ok([count |-> Len(results), vendors |-> results]))

---------------------------------------------------------------------------
(* The HTTP surface: the routes in the order the decorators register them  *)
(* (src/main.py 78-280).  "{}" is a path parameter.                        *)

Routes ==
    << [method |-> "GET",   path |-> <<>>,                          endpoint |-> "read_root"],
       [method |-> "GET",   path |-> <<"test">>,                    endpoint |-> "test_database"],
       [method |-> "POST",  path |-> <<"api", "auth", "register">>, endpoint |-> "register"],
       [method |-> "POST",  path |-> <<"api", "auth", "login">>,    endpoint |-> "login"],
       [method |-> "GET",   path |-> <<"api", "auth", "me">>,       endpoint |-> "me"],
       [method |-> "POST",  path |-> <<"api", "vendors">>,          endpoint |-> "create_vendor"],
       [method |-> "GET",   path |-> <<"api", "vendors", "{}">>,    endpoint |-> "get_vendor"],
       [method |-> "PATCH", path |-> <<"api", "vendors", "{}">>,    endpoint |-> "update_vendor"],
       [method |-> "GET",   path |-> <<"api", "vendors", "nearby">>, endpoint |-> "nearby_vendors"],
       [method |-> "GET",   path |-> <<"api", "admin", "vendors">>, endpoint |-> "admin_list_vendors"],
       [method |-> "POST",  path |-> <<"api", "payments">>,         endpoint |-> "create_payment"] >>

\* A route matches a request of its method whose path has the segments of
\* the route's, a parameter standing for any one segment.
RouteMatches(route, method, path) ==
    /\ route.method = method
    /\ Len(route.path) = Len(path)
    /\ \A i \in DOMAIN path : route.path[i] = "{}" \/ route.path[i] = path[i]

\* The router tries the routes in order and takes the first that matches.
Dispatch(method, path) ==
    LET hits == {i \in DOMAIN Routes : RouteMatches(Routes[i], method, path)}
    IN  IF hits = {} THEN ""
        ELSE Routes[CHOOSE i \in hits : \A j \in hits : i <= j].endpoint

\* The response to a request and the collections after it.  Requests to
\* /, /test and /api/admin/vendors are not part of the model.
Handle(r) ==
    LET endpoint == Dispatch(r.method, r.path)
    IN  CASE endpoint = "register" -> register(r.body)
          [] endpoint = "login" -> login(r.body)
          [] endpoint = "me" -> me(r.authorization)
          [] endpoint = "create_vendor" ->
                create_vendor(r.body, r.authorization)
          [] endpoint = "get_vendor" -> get_vendor(r.path[3])
          [] endpoint = "update_vendor" ->
                update_vendor(r.path[3], r.body, r.authorization)
          [] endpoint = "nearby_vendors" -> nearby_vendors(r.query)
          [] endpoint = "create_payment" ->
                create_payment(r.body, r.authorization)
          [] OTHER -> Unchanged(HTTPError(404, "Not Found"))

Request(method, path, query, body, authorization) ==
    [method |-> method, path |-> path, query |-> query, body |-> body,
     authorization |-> authorization]

---------------------------------------------------------------------------
(* What clients send *)

Emails == {None, Some("a@x.com"), Some("b@x.com")}
Phones == {None, Some("0300")}
Passwords == {"secret1", "secret2"}

UserInputs ==
    {[email |-> e, phone |-> p, password |-> "secret1"] :
        e \in Emails, p \in Phones}

LoginInputs ==
    {[email |-> e, phone |-> p, password |-> w] :
        e \in {None, Some("a@x.com")}, p \in Phones \cup {Some("")},
        w \in Passwords}

\* Tokens a client may hold: those create_access_token hands out for the
\* first users at the first instants, one signed for a subject that is no
\* ObjectId, one signed with another key, and one that is no token.
IssuedTokens ==
    {create_access_token_at(Oid(UserIdBase + n), t) :
        n \in 1 .. MaxUsers, t \in 0 .. MaxTick}
ForeignToken ==
    jwt_encode([sub |-> "nearby", exp |-> 2 * TokenLifetime], JWT_SECRET)
ForgedToken ==
    jwt_encode([sub |-> Oid(UserIdBase + 1), exp |-> 2 * TokenLifetime],
               "not_the_secret")
NotAToken == [sub |-> "", exp |-> 0, sig |-> ""]

Header(scheme, token) == Some([scheme |-> scheme, token |-> token])
Bearer(token) == Header("Bearer", token)

AllAuthorizations ==
    {None}
    \cup {Bearer(t) : t \in IssuedTokens \cup
                            {ForeignToken, ForgedToken, NotAToken}}
    \cup {Header("bearer", create_access_token_at(Oid(UserIdBase + 1), MaxTick)),
          Header("Basic", create_access_token_at(Oid(UserIdBase + 1), MaxTick))}

\* A token of the first user issued one lifetime ago.
ExpiredToken == create_access_token_at(Oid(UserIdBase + 1), 0 - TokenLifetime)

\* The callers of the vendor and payment routes: no header, a token of the
\* first user, a forged one, an expired one.
SomeAuthorizations ==
    {None, Bearer(create_access_token_at(Oid(UserIdBase + 1), 0)),
     Bearer(ForgedToken), Bearer(ExpiredToken)}

\* The first user to sign up.
FirstUser ==
    [email |-> Some("a@x.com"), phone |-> None, password |-> "secret1"]

Point(lng, lat) == [type |-> "Point", coordinates |-> <<lng, lat>>]

VendorInputs ==
    { [name |-> "Ali Motors", phone |-> "0300", service_type |-> "mechanic",
       location |-> Point(67000, 24800)],
      [name |-> "Sea View", phone |-> "0311", service_type |-> "hotel",
       location |-> Point(67100, 24800), address |-> Some("Saddar"),
       approved |-> TRUE, verified |-> TRUE, payment_status |-> "active"] }

UpdateInputs ==
    { <<>>,
      [address |-> None],
      [name |-> Some("Ali Autos"), address |-> Some("Clifton"),
       approved |-> Some(TRUE), description |-> None] }

\* Path segments after /api/vendors/: the ids of the first vendors, an
\* ObjectId no vendor has, and strings that are no ObjectId.
VendorIds == {Oid(VendorIdBase + n) : n \in 1 .. MaxVendors}
AbsentId == Oid(VendorIdBase + 99)
VendorSegments == VendorIds \cup {AbsentId, "zz"}

NearbyQueries ==
    {[lng |-> 67001, lat |-> 24801, radius_km |-> r, service_type |-> s] :
        r \in {[num |-> 5, den |-> 1], [num |-> 1, den |-> 1000]},
        s \in {None, Some("mechanic")}}

PaymentInputs ==
    { [vendor_id |-> Oid(VendorIdBase + 1), amount_pkr |-> 500],
      [vendor_id |-> AbsentId, amount_pkr |-> 0, method |-> "easypaisa",
       status |-> "confirmed", reference |-> Some("TX-1")] }

---------------------------------------------------------------------------
(* The state machine *)

NoRequest == Request("", <<>>, <<>>, <<>>, None)

Init ==
    /\ users = <<>>
    /\ vendors = <<>>
    /\ payments = <<>>
    /\ indexes \in 0 .. 3
    /\ now = 0
    /\ last = [request |-> NoRequest, at |-> 0, status |-> 0, body |-> <<>>]
    /\ inflight = <<>>

\* What the request leaves: the collections, and the record of the request
\* with the response it got.
Served(r, out) ==
    [users |-> out.users, vendors |-> out.vendors, payments |-> out.payments,
     last |-> [request |-> r, at |-> now, status |-> out.status,
               body |-> out.body]]

\* The server handles a request from start to end.
Serve(method, path, query, body, authorization) ==
    LET r == Request(method, path, query, body, authorization)
    IN  Served(r, Handle(r))

\* The model keeps to collections within its bounds.
Fits(s) ==
    /\ Len(s.users) <= MaxUsers
    /\ Len(s.vendors) <= MaxVendors
    /\ Len(s.payments) <= MaxPayments

Register ==
    \E body \in UserInputs :
        \E s \in {Serve("POST", <<"api", "auth", "register">>, <<>>, body, None)} :
            /\ Fits(s)
            /\ users' = s.users /\ vendors' = s.vendors
            /\ payments' = s.payments /\ last' = s.last
            /\ UNCHANGED <<indexes, now, inflight>>

\* The first user signs up.
SignUp ==
    \E body \in {FirstUser} :
        \E s \in {Serve("POST", <<"api", "auth", "register">>, <<>>, body, None)} :
            /\ Fits(s)
            /\ users' = s.users /\ vendors' = s.vendors
            /\ payments' = s.payments /\ last' = s.last
            /\ UNCHANGED <<indexes, now, inflight>>

Login ==
    \E body \in LoginInputs :
        \E s \in {Serve("POST", <<"api", "auth", "login">>, <<>>, body, None)} :
            /\ Fits(s)
            /\ users' = s.users /\ vendors' = s.vendors
            /\ payments' = s.payments /\ last' = s.last
            /\ UNCHANGED <<indexes, now, inflight>>

Me ==
    \E a \in AllAuthorizations :
        \E s \in {Serve("GET", <<"api", "auth", "me">>, <<>>, <<>>, a)} :
            /\ Fits(s)
            /\ users' = s.users /\ vendors' = s.vendors
            /\ payments' = s.payments /\ last' = s.last
            /\ UNCHANGED <<indexes, now, inflight>>

CreateVendor ==
    \E body \in VendorInputs, a \in SomeAuthorizations :
        \E s \in {Serve("POST", <<"api", "vendors">>, <<>>, body, a)} :
            /\ Fits(s)
            /\ users' = s.users /\ vendors' = s.vendors
            /\ payments' = s.payments /\ last' = s.last
            /\ UNCHANGED <<indexes, now, inflight>>

GetVendor ==
    \E seg \in VendorSegments :
        \E s \in {Serve("GET", <<"api", "vendors", seg>>, <<>>, <<>>, None)} :
            /\ Fits(s)
            /\ users' = s.users /\ vendors' = s.vendors
            /\ payments' = s.payments /\ last' = s.last
            /\ UNCHANGED <<indexes, now, inflight>>

UpdateVendorReq ==
    \E seg \in VendorSegments, body \in UpdateInputs,
       a \in SomeAuthorizations :
        \E s \in {Serve("PATCH", <<"api", "vendors", seg>>, <<>>, body, a)} :
            /\ Fits(s)
            /\ users' = s.users /\ vendors' = s.vendors
            /\ payments' = s.payments /\ last' = s.last
            /\ UNCHANGED <<indexes, now, inflight>>

Nearby ==
    \E q \in NearbyQueries :
        \E s \in {Serve("GET", <<"api", "vendors", "nearby">>, q, <<>>, None)} :
            /\ Fits(s)
            /\ users' = s.users /\ vendors' = s.vendors
            /\ payments' = s.payments /\ last' = s.last
            /\ UNCHANGED <<indexes, now, inflight>>

CreatePayment ==
    \E body \in PaymentInputs, a \in SomeAuthorizations :
        \E s \in {Serve("POST", <<"api", "payments">>, <<>>, body, a)} :
            /\ Fits(s)
            /\ users' = s.users /\ vendors' = s.vendors
            /\ payments' = s.payments /\ last' = s.last
            /\ UNCHANGED <<indexes, now, inflight>>

\* Time passes.
Tick ==
    /\ \E t \in Instants : t > now /\ now' = t
    /\ UNCHANGED <<users, vendors, payments, indexes, last, inflight>>

Next ==
    \/ Register
    \/ Login
    \/ Me
    \/ CreateVendor
    \/ GetVendor
    \/ UpdateVendorReq
    \/ Nearby
    \/ CreatePayment
    \/ Tick

Spec == Init /\ [][Next]_vars

\* The clients of the auth routes alone.
AuthNext == Register \/ Login \/ Me \/ Tick

AuthSpec == Init /\ [][AuthNext]_vars

\* One user and the clients of the vendor and payment routes.
DirectoryNext ==
    \/ SignUp
    \/ CreateVendor
    \/ GetVendor
    \/ UpdateVendorReq
    \/ Nearby
    \/ CreatePayment

\* None of these handlers consults the user indexes, and the route table
\* keeps requests away from the one that needs the geospatial index.
DirectoryInit == Init /\ indexes = 3

DirectorySpec == DirectoryInit /\ [][DirectoryNext]_vars

\* Register requests served by the threads of the pool, each one's lookups
\* and its insert being separate steps on the store.
RaceInputs ==
    {[email |-> e, phone |-> p, password |-> "secret1"] :
        e \in {None, Some("a@x.com")}, p \in Phones}

Pending(user) == [user |-> user, pc |-> "lookups", status |-> 0, body |-> <<>>]

Answered(req, resp) ==
    [user |-> req.user, pc |-> "done", status |-> resp.status,
     body |-> resp.body]

\* A register request arrives and is handed to a thread.
RegisterBegin ==
    /\ Len(inflight) < MaxInflight
    /\ \E user \in RaceInputs : inflight' = Append(inflight, Pending(user))
    /\ UNCHANGED <<users, vendors, payments, indexes, now, last>>

\* The thread of request k runs register down to the uniqueness checks.
RegisterLookups ==
    \E k \in DOMAIN inflight :
        /\ inflight[k].pc = "lookups"
        /\ \E req \in {inflight[k]} :
             \E refused \in {register_lookups(req.user)} :
                inflight' = [inflight EXCEPT ![k] =
                    IF refused # None THEN Answered(req, refused[1])
                    ELSE [req EXCEPT !.pc = "insert"]]
        /\ UNCHANGED <<users, vendors, payments, indexes, now, last>>

\* The thread of request k runs register from model_dump to the response.
RegisterInsert ==
    \E k \in DOMAIN inflight :
        /\ inflight[k].pc = "insert"
        /\ \E req \in {inflight[k]} :
             \E out \in {register_insert(req.user)} :
                /\ Len(out.users) <= MaxUsers
                /\ users' = out.users
                /\ inflight' = [inflight EXCEPT ![k] = Answered(req, out)]
        /\ UNCHANGED <<vendors, payments, indexes, now, last>>

RegisterNext == RegisterBegin \/ RegisterLookups \/ RegisterInsert

RegisterSpec == Init /\ [][RegisterNext]_vars

---------------------------------------------------------------------------
(* Properties: what the claims read *)

IsRequest(l, method, path) ==
    l.request.method = method /\ l.request.path = path

\* A step in which the server served one request from start to end.
ServedStep == now' = now /\ inflight' = inflight

StoreUnchanged == UNCHANGED <<users, vendors, payments>>

UserIds == {users[i]._id : i \in DOMAIN users}
UserById(id) == CHOOSE u \in Range(users) : u._id = id

Rejected(l, code, detail) ==
    l.status = code /\ l.body = [detail |-> detail]

\* No two stored users share an email or a phone that is set.
UniqueContacts ==
    \A i, j \in DOMAIN users :
        i # j =>
            /\ ~(Truthy(users[i].email) /\ users[i].email = users[j].email)
            /\ ~(Truthy(users[i].phone) /\ users[i].phone = users[j].phone)

\* The email or the phone of the input is that of a stored user.
ContactTaken(u) ==
    \E i \in DOMAIN users :
        \/ Truthy(u.email) /\ users[i].email = u.email
        \/ Truthy(u.phone) /\ users[i].phone = u.phone

---------------------------------------------------------------------------
(* C3.  Register requests handled one after another: with neither email    *)
(* nor phone the answer is 400; with the email or phone of a stored user   *)
(* it is 409 and nothing is stored; otherwise exactly one user is stored.  *)
(* So no two stored users share an email or a phone that is set.           *)

C3_RegisterStep ==
    (ServedStep /\ IsRequest(last', "POST", <<"api", "auth", "register">>))
    => LET u == last'.request.body
       IN  IF ~Truthy(u.email) /\ ~Truthy(u.phone)
           THEN last'.status = 400 /\ StoreUnchanged
           ELSE IF ContactTaken(u)
           THEN last'.status = 409 /\ StoreUnchanged
           ELSE /\ Len(users') = Len(users) + 1
                /\ SubSeq(users', 1, Len(users)) = users
                /\ Last(users').email = u.email
                /\ Last(users').phone = u.phone

C3_RegisterSequential == [][C3_RegisterStep]_vars /\ []UniqueContacts

---------------------------------------------------------------------------
(* C4.  login with an email (or phone) of no stored user, and login with   *)
(* that of a stored user and a wrong password, both answer 401 with the    *)
(* same detail, never 404, issue no token and change nothing; a token for  *)
(* a subject is answered only when the password verifies against that      *)
(* user's stored hash.                                                     *)

\* The users the request names: by email when it has one, else by phone.
Named(req) ==
    IF Truthy(req.email)
    THEN {u \in Range(users) : u.email = req.email}
    ELSE {u \in Range(users) : u.phone = req.phone}

C4_LoginAnswer ==
    IsRequest(last, "POST", <<"api", "auth", "login">>)
    => LET req == last.request.body
       IN  /\ last.status # 404
           /\ (Truthy(req.email) \/ Truthy(req.phone))
                /\ (\A u \in Named(req) :
                       ~verify_password(req.password, u.hashed_password))
              => Rejected(last, 401, "Invalid credentials")
           /\ last.status # 200 => "access_token" \notin DOMAIN last.body
           /\ last.status = 200
              => \E u \in Range(users) :
                    /\ last.body.access_token.sub = u._id
                    /\ last.body.access_token.sig = JWT_SECRET
                    /\ last.body.user.id = u._id
                    /\ verify_password(req.password, u.hashed_password)

C4_LoginStep ==
    (ServedStep /\ IsRequest(last', "POST", <<"api", "auth", "login">>))
    => StoreUnchanged

C4_LoginUniform == []C4_LoginAnswer /\ [][C4_LoginStep]_vars

\* A login that named a stored user with a wrong password, and got 401.
C4_Witness ==
    /\ IsRequest(last, "POST", <<"api", "auth", "login">>)
    /\ Named(last.request.body) # {}
    /\ Truthy(last.request.body.email)
    /\ last.status = 401

---------------------------------------------------------------------------
(* C5.  A token create_access_token issued for subject s at time t gets    *)
(* the stored user s from /api/auth/me at every time before t + lifetime   *)
(* and 401 at every time after it; no header, no bearer token, a malformed *)
(* or wrongly signed token and a subject that is no stored user all get    *)
(* the same 401.                                                           *)

C5_TokenResolves ==
    IsRequest(last, "GET", <<"api", "auth", "me">>)
    => LET a == last.request.authorization
       IN  /\ \A s \in UserIds, t \in Instants :
                a = Bearer(create_access_token_at(s, t))
                => /\ last.at < t + TokenLifetime
                      => /\ last.status = 200
                         /\ last.body = UserOut(s, UserById(s).email,
                                                UserById(s).phone)
                   /\ last.at > t + TokenLifetime
                      => Rejected(last, 401, "Unauthorized")
           /\ ( \/ a = None
                \/ a[1].scheme \notin {"Bearer", "bearer", "BEARER"}
                \/ a[1].token = NotAToken
                \/ a[1].token.sig # JWT_SECRET
                \/ a[1].token.sub \notin UserIds )
              => Rejected(last, 401, "Unauthorized")

\* /api/auth/me asked with the token of a stored user after its expiry.
C5_Witness ==
    /\ IsRequest(last, "GET", <<"api", "auth", "me">>)
    /\ \E s \in UserIds :
          /\ last.request.authorization = Bearer(create_access_token_at(s, 0))
          /\ last.at > TokenLifetime
    /\ last.status = 401

---------------------------------------------------------------------------
(* What the vendor and payment claims read *)

IsCreateVendor(l) == IsRequest(l, "POST", <<"api", "vendors">>)
IsCreatePayment(l) == IsRequest(l, "POST", <<"api", "payments">>)

\* A request with this method for /api/vendors/<one segment>.
IsVendorPath(l, method) ==
    /\ l.request.method = method
    /\ Len(l.request.path) = 3
    /\ SubSeq(l.request.path, 1, 2) = <<"api", "vendors">>

\* The header carries a bearer token signed with the secret, not expired at
\* the instant t, whose subject is a stored user.
ResolvesToUser(a, t) ==
    /\ a # None
    /\ a[1].scheme \in {"Bearer", "bearer", "BEARER"}
    /\ a[1].token.sig = JWT_SECRET
    /\ a[1].token.exp > t
    /\ a[1].token.sub \in UserIds

\* Every field of the partial payload is null or left out.
EmptyPayload(body) == \A f \in DOMAIN body : body[f] = None

VendorIndex(id) == {i \in DOMAIN vendors : vendors[i]._id = id}

---------------------------------------------------------------------------
(* C1.  GET /api/vendors/nearby with lng, lat and radius_km, dispatched    *)
(* through the route table in registration order, answers {count, vendors} *)
(* with exactly the stored vendors that are approved, active, inside the   *)
(* radius and of the service type when one is given.                       *)

C1_NearbyAnswersEligible ==
    IsRequest(last, "GET", <<"api", "vendors", "nearby">>)
    => LET eligible == {serialize_doc(d) :
                          d \in {v \in Range(vendors) :
                                   NearbyMatch(v, last.request.query)}}
       IN  /\ last.status = 200
           /\ Range(last.body.vendors) = eligible
           /\ last.body.count = Cardinality(eligible)

---------------------------------------------------------------------------
(* C2.  GET /api/vendors/{id} returns the stored vendor when one has the   *)
(* id, answers 404 when the id is well-formed and no vendor has it, and    *)
(* answers 400 only when the id is malformed; the store is left unchanged  *)
(* in every case.                                                          *)

C2_GetAnswer ==
    IsVendorPath(last, "GET")
    => LET id == last.request.path[3]
       IN  /\ VendorIndex(id) # {}
              => /\ last.status = 200
                 /\ \E i \in VendorIndex(id) :
                       last.body = serialize_doc(vendors[i])
           /\ IsObjectId(id) /\ VendorIndex(id) = {} => last.status = 404
           /\ last.status = 400 => ~IsObjectId(id)

C2_GetStep == (ServedStep /\ IsVendorPath(last', "GET")) => StoreUnchanged

C2_GetVendorAnswer == []C2_GetAnswer /\ [][C2_GetStep]_vars

---------------------------------------------------------------------------
(* C6.  For a vendor input from an authenticated caller, create_vendor     *)
(* followed by get_vendor on the returned id yields the input's fields,    *)
(* approved=false, verified=false and payment_status=unpaid where the      *)
(* input gave none, and the assigned id, which no vendor stored before     *)
(* had.                                                                    *)

C6_Expected(input, id) ==
    [f \in VendorFields \cup {"id"} |->
        CASE f = "id" -> id
          [] f \in DOMAIN input -> input[f]
          [] f = "approved" -> FALSE
          [] f = "verified" -> FALSE
          [] f = "payment_status" -> "unpaid"
          [] OTHER -> None]

C6_CreateAnswer ==
    IsCreateVendor(last)
        /\ ResolvesToUser(last.request.authorization, last.at)
    => /\ last.status = 200
       /\ LET got == get_vendor(last.body.id)
          IN  /\ got.status = 200
              /\ got.body = C6_Expected(last.request.body, last.body.id)
              /\ got.body = last.body

C6_CreateStep ==
    (ServedStep /\ IsCreateVendor(last') /\ last'.status = 200
        /\ vendors' # vendors)
    => /\ VendorIndex(last'.body.id) = {}
       /\ Len(vendors') = Len(vendors) + 1

C6_CreateThenGet == []C6_CreateAnswer /\ [][C6_CreateStep]_vars

\* A second vendor was created from an input that leaves the defaults out.
C6_Witness ==
    /\ IsCreateVendor(last)
    /\ last.status = 200
    /\ "approved" \notin DOMAIN last.request.body
    /\ Len(vendors) = 2

---------------------------------------------------------------------------
(* C7.  update_vendor with an empty partial payload, for any id (existing, *)
(* absent or malformed), reports {updated: false} and leaves every stored  *)
(* vendor as it was.                                                       *)

C7_EmptyStep ==
    (ServedStep /\ IsVendorPath(last', "PATCH")
        /\ EmptyPayload(last'.request.body))
    => vendors' = vendors

\* The handler runs for a caller whose token resolves to a stored user and
\* reports {updated: false}; any other caller is turned away with 401
\* before it runs.  The vendors are left alone either way.
C7_EmptyAnswer ==
    IsVendorPath(last, "PATCH") /\ EmptyPayload(last.request.body)
    => IF ResolvesToUser(last.request.authorization, last.at)
       THEN last.status = 200 /\ last.body = [updated |-> FALSE]
       ELSE Rejected(last, 401, "Unauthorized")

C7_EmptyUpdate == []C7_EmptyAnswer /\ [][C7_EmptyStep]_vars

\* An authenticated empty update of a malformed id, with a vendor stored.
C7_Witness ==
    /\ IsVendorPath(last, "PATCH")
    /\ last.request.body = [address |-> None]
    /\ ~IsObjectId(last.request.path[3])
    /\ ResolvesToUser(last.request.authorization, last.at)
    /\ last.status = 200
    /\ vendors # <<>>

---------------------------------------------------------------------------
(* C8.  update_vendor with a non-empty partial payload on an existing id   *)
(* overwrites exactly the fields that are non-null in the payload, leaves  *)
(* every other field and every other vendor unchanged and returns the      *)
(* merged vendor; on a well-formed id of no vendor it answers 404 and      *)
(* changes nothing.                                                        *)

C8_Merged(i, body) ==
    [j \in DOMAIN vendors |->
        IF j # i THEN vendors[j]
        ELSE [f \in DOMAIN vendors[i] |->
                IF f \in DOMAIN body /\ body[f] # None
                THEN StoredValue(f, body[f][1])
                ELSE vendors[i][f]]]

C8_Effect ==
    LET id == last'.request.path[3]
        body == last'.request.body
    IN  IF VendorIndex(id) # {}
        THEN \E i \in VendorIndex(id) :
                /\ vendors' = C8_Merged(i, body)
                /\ last'.status = 200
                /\ last'.body = serialize_doc(vendors'[i])
        ELSE IsObjectId(id) => last'.status = 404 /\ vendors' = vendors

\* The handler runs for a caller whose token resolves to a stored user; any
\* other caller is turned away with 401 before it runs and changes nothing.
C8_UpdateStep ==
    (ServedStep /\ IsVendorPath(last', "PATCH")
        /\ ~EmptyPayload(last'.request.body))
    => IF ResolvesToUser(last'.request.authorization, now)
       THEN C8_Effect
       ELSE Rejected(last', 401, "Unauthorized") /\ vendors' = vendors

C8_PartialUpdate == [][C8_UpdateStep]_vars

\* An authenticated update of name and address of the first of two vendors.
C8_Witness ==
    /\ IsVendorPath(last, "PATCH")
    /\ "name" \in DOMAIN last.request.body
    /\ last.status = 200
    /\ Len(vendors) = 2
    /\ last.request.path[3] = vendors[1]._id
    /\ vendors[1].name = "Ali Autos"
    /\ vendors[1].service_type = "mechanic"

---------------------------------------------------------------------------
(* C9.  A create_vendor, update_vendor or create_payment request whose     *)
(* bearer token is missing or resolves to no stored user answers 401 and   *)
(* leaves vendors and payments unchanged, so every vendor and payment was  *)
(* written by a request whose token resolved to a stored user; and         *)
(* create_payment changes no vendor, authenticated or not.                 *)

Protected(l) ==
    IsCreateVendor(l) \/ IsVendorPath(l, "PATCH") \/ IsCreatePayment(l)

C9_Answer ==
    Protected(last) /\ ~ResolvesToUser(last.request.authorization, last.at)
    => Rejected(last, 401, "Unauthorized")

C9_Step ==
    /\ (ServedStep /\ Protected(last')
           /\ ~ResolvesToUser(last'.request.authorization, now))
       => vendors' = vendors /\ payments' = payments
    /\ (vendors' # vendors \/ payments' # payments)
       => /\ Protected(last')
          /\ ResolvesToUser(last'.request.authorization, now)
    /\ (ServedStep /\ IsCreatePayment(last')) => vendors' = vendors

C9_WritesNeedUser == []C9_Answer /\ [][C9_Step]_vars

\* A payment asked for with an expired token of the stored user: 401, with
\* a vendor stored and no payment.
C9_Witness ==
    /\ IsCreatePayment(last)
    /\ last.request.authorization = Bearer(ExpiredToken)
    /\ last.status = 401
    /\ UserIds # {}
    /\ vendors # <<>>
    /\ payments = <<>>

---------------------------------------------------------------------------
(* C10.  When register requests carrying the same email or the same phone  *)
(* are interleaved, their lookups and their inserts being separate store   *)
(* steps, no two stored users share an email or a phone that is set and at *)
(* most one of those requests is answered with a token, whether or not the *)
(* unique indexes were created at start-up.                                *)

SameContact(u, v) ==
    \/ Truthy(u.email) /\ u.email = v.email
    \/ Truthy(u.phone) /\ u.phone = v.phone

C10_RegisterExclusive ==
    /\ \A i, j \in DOMAIN users :
          i # j => ~SameContact(users[i], users[j])
    /\ \A i, j \in DOMAIN inflight :
          (i # j /\ SameContact(inflight[i].user, inflight[j].user))
          => ~(inflight[i].status = 200 /\ inflight[j].status = 200)

===========================================================================
